---------------------------- MODULE Spec2Model ----------------------------
(***************************************************************************)
(* A model of the golio Riot API client's request pipeline                 *)
(* (Client.doRequest with its wrappers getInto / postInto / put) and of    *)
(* its paginated match stream (matchClient.ListStream and                  *)
(* Client.GetMatchesByAccountStream).                                      *)
(*                                                                         *)
(* The transport (internal.Doer), the remote server and the consumer of a  *)
(* stream are the environment: what they answer or do is chosen            *)
(* nondeterministically from small sets.                                   *)
(***************************************************************************)
EXTENDS Integers, Sequences, FiniteSets, TLC

(***************************************************************************)
(* Bounds of the model.                                                    *)
(***************************************************************************)
\* transport calls one wrapper call may make before the model stops it
MaxCalls == 3
\* Retry-After headers carry the integers -MaxSeconds .. MaxSeconds
MaxSeconds == 1
\* the account's match count runs up to MaxPages full pages, and a little over
MaxPages == 1

(***************************************************************************)
(* Constants of the program.                                               *)
(***************************************************************************)
\* http.StatusServiceUnavailable
StatusServiceUnavailable == 503
\* http.StatusTooManyRequests
StatusTooManyRequests == 429
\* http.StatusNotFound
StatusNotFound == 404
\* the window of one page fetch, and the length that marks a full page
PageSize == 100
\* the capacity of the stream's channel
ChanCap == 100

VARIABLES
    \* ---- the request pipeline ----
    Region,     \* Client.Region
    apiKey,     \* Client.apiKey
    pc,         \* where the wrapper call stands: idle, do1, do2, done
    call,       \* the wrapper call in progress: its op, method and endpoint
    body,       \* the body io.Reader handed to doRequest: absent, or its unread data
    attempts,   \* transport calls made by the current invocation of doRequest
    depth,      \* re-invocations of doRequest made so far by this call
    trace,      \* every transport call of this call: the request sent, the answer,
                \* and the invocation of doRequest (0, 1, ...) that made it
    sleeps,     \* every time.Sleep of this call: the seconds it lasted, and the
                \* invocation of doRequest that slept
    result,     \* what doRequest returned: (response, err)
    target,     \* what the wrapper handed to its caller: (value, err)
    \* ---- the match streams, one entry per stream ----
    total,      \* the server's number of matches of the account
    spc,        \* where the producer goroutine stands: idle, fetch, send, eof, err, done
    filter,     \* the MatchFilter the caller passed
    start,      \* the goroutine's start
    end,        \* the goroutine's end
    page,       \* matches.Matches of the page in hand
    idx,        \* the position of the range loop in page
    ferr,       \* the error of the failed fetch
    cMatches,   \* the values in the channel's buffer, oldest first
    closed,     \* whether the channel has been closed
    received,   \* the values the consumer has received, oldest first
    reading,    \* whether the consumer still receives
    fetchLog    \* every List call of the goroutine: its window and its outcome

engineVars ==
    <<Region, apiKey, pc, call, body, attempts, depth, trace, sleeps, result, target>>

streamVars ==
    <<total, spc, filter, start, end, page, idx, ferr, cMatches, closed, received, reading,
      fetchLog>>

vars == <<engineVars, streamVars>>

(***************************************************************************)
(* Values.                                                                 *)
(***************************************************************************)
Regions == {"euw1"}
Endpoints == {"/lol/platform/v4/third-party-code/by-summoner/id", "/lol/summoner/v4/summoners/by-name/name"}
\* request bodies the caller may pass; the last one json cannot encode
Payloads == {"body", "unencodable"}

\* json.NewEncoder(buf).Encode(v): the JSON text written to buf, or an error
JSONEncode(v) ==
    IF v = "unencodable"
    THEN [ok |-> FALSE, text |-> <<>>]
    ELSE [ok |-> TRUE, text |-> <<"json", v>>]

\* json.NewDecoder(r).Decode(target): the value, or a decoding error
JSONDecode(b) ==
    IF Len(b) = 2 /\ b[1] = "json"
    THEN [ok |-> TRUE, value |-> b[2]]
    ELSE [ok |-> FALSE, value |-> "zero"]

\* error values; nil is NoError
NoError == [kind |-> "nil", message |-> "", code |-> 0]
TransportError == [kind |-> "transport", message |-> "connection refused", code |-> 0]
AtoiError == [kind |-> "strconv", message |-> "invalid syntax", code |-> 0]
DecodeError == [kind |-> "json", message |-> "invalid character", code |-> 0]
EncodeError == [kind |-> "json", message |-> "unsupported type", code |-> 0]
ApiError(message, code) == [kind |-> "api", message |-> message, code |-> code]
ErrNotFound == ApiError("not found", StatusNotFound)
ErrServiceUnavailable == ApiError("service unavailable", StatusServiceUnavailable)

\* api.StatusToError: the fixed status -> error table
StatusToError ==
    (StatusNotFound :> ErrNotFound) @@ (StatusServiceUnavailable :> ErrServiceUnavailable)

\* responses; a nil *http.Response is NoResponse
NoResponse == [status |-> 0, retryAfter |-> <<>>, content |-> <<>>]
NoBody == [present |-> FALSE, data |-> <<>>]

(***************************************************************************)
(* strconv.Atoi on a string given as its sequence of characters.           *)
(***************************************************************************)
Digits == <<"0", "1", "2", "3", "4", "5", "6", "7", "8", "9">>

IsDigit(c) == \E i \in 1..10 : Digits[i] = c

DigitVal(c) == (CHOOSE i \in 1..10 : Digits[i] = c) - 1

RECURSIVE DigitsValue(_)
DigitsValue(s) ==
    IF s = <<>> THEN 0
    ELSE 10 * DigitsValue(SubSeq(s, 1, Len(s) - 1)) + DigitVal(s[Len(s)])

Atoi(s) ==
    LET signed == s # <<>> /\ s[1] \in {"+", "-"}
        digits == IF signed THEN Tail(s) ELSE s
    IN  IF digits = <<>> \/ \E i \in 1..Len(digits) : ~IsDigit(digits[i])
        THEN [ok |-> FALSE, n |-> 0]
        ELSE [ok |-> TRUE,
              n |-> IF signed /\ s[1] = "-" THEN 0 - DigitsValue(digits)
                    ELSE DigitsValue(digits)]

\* the decimal text of an integer, as a server writes it into Retry-After
RECURSIVE NatText(_)
NatText(n) ==
    IF n < 10 THEN <<Digits[n + 1]>>
    ELSE Append(NatText(n \div 10), Digits[(n % 10) + 1])

IntText(n) == IF n < 0 THEN <<"-">> \o NatText(0 - n) ELSE NatText(n)

\* the Retry-After headers a 429 may carry; <<>> is the missing header
RetryAfterValues ==
    {IntText(n) : n \in (0 - MaxSeconds)..MaxSeconds}
        \cup {<<>>, <<"x">>, <<"1", "s">>, <<"-">>, <<"+", "1">>, <<"1", "0">>}

Statuses == {199, 200, 299, 300, StatusNotFound, StatusTooManyRequests,
             StatusServiceUnavailable, 999}

\* what the transport may hand back for one Do: a response, or an error
Responses ==
    {[status |-> s, retryAfter |-> <<>>, content |-> <<>>] :
        s \in Statuses \ {200, StatusTooManyRequests}}
    \cup {[status |-> 200, retryAfter |-> <<>>, content |-> c] :
            c \in {JSONEncode("code").text, <<"garbage">>}}
    \cup {[status |-> StatusTooManyRequests, retryAfter |-> h, content |-> <<>>] :
            h \in RetryAfterValues}

TransportOutcomes ==
    {[resp |-> r, err |-> NoError] : r \in Responses}
        \cup {[resp |-> NoResponse, err |-> TransportError]}


(***************************************************************************)
(* The request pipeline.                                                   *)
(***************************************************************************)
Ops == {"getInto", "postInto", "put"}

MethodOf(op) ==
    CASE op = "getInto" -> "GET"
      [] op = "postInto" -> "POST"
      [] op = "put" -> "PUT"

\* Client.newRequest: the request built from the method, the endpoint and the body
newRequest(method, endpoint, reader) ==
    [method |-> method,
     url |-> <<Region, endpoint>>,
     token |-> apiKey,
     accept |-> "application/json",
     hasBody |-> reader.present,
     payload |-> reader.data]

\* time.Sleep(d), d in seconds: the seconds the caller is held
SleepFor(seconds) == IF seconds <= 0 THEN 0 ELSE seconds

\* the logs and the invocation count cover the first MaxCalls transport calls
Recording == Len(trace) < MaxCalls

Log(log, entry) == IF Recording THEN Append(log, entry) ELSE log

\* what getInto / postInto / put make of doRequest's (response, err)
WrapperReturn(op, resp, err) ==
    IF err # NoError THEN [value |-> "zero", err |-> err]
    ELSE IF op = "put" THEN [value |-> "zero", err |-> NoError]
    ELSE LET d == JSONDecode(resp.content)
         IN  IF d.ok THEN [value |-> d.value, err |-> NoError]
             ELSE [value |-> "zero", err |-> DecodeError]

\* doRequest returns (resp, err); the wrapper that called it returns in turn
Return(resp, err) ==
    /\ pc' = "done"
    /\ result' = [resp |-> resp, err |-> err]
    /\ target' = WrapperReturn(call.op, resp, err)

\* StatusError without the table lookup
StatusErrorNoTable(status) == ApiError("unknown error reason", status)

\* the error doRequest returns for a status outside 200..299
StatusError(status) ==
    IF status \in DOMAIN StatusToError
    THEN StatusToError[status]
    ELSE ApiError("unknown error reason", status)

\* HandleStatus sleeping one second on a 429, whatever Retry-After says
HandleStatusFixedBackoff(resp, slept, made) ==
    IF resp.status = StatusTooManyRequests
    THEN LET seconds == Atoi(resp.retryAfter)
         IN  IF ~seconds.ok
             THEN /\ sleeps' = slept
                  /\ attempts' = made
                  /\ depth' = depth
                  /\ Return(NoResponse, AtoiError)
             ELSE /\ sleeps' = Log(slept, [seconds |-> SleepFor(1), invocation |-> depth])
                  /\ attempts' = 0
                  /\ depth' = IF Recording THEN depth + 1 ELSE depth
                  /\ pc' = "do1"
                  /\ UNCHANGED <<result, target>>
    ELSE /\ sleeps' = slept
         /\ attempts' = made
         /\ depth' = depth
         /\ IF resp.status < 200 \/ resp.status > 299
            THEN Return(NoResponse, StatusError(resp.status))
            ELSE Return(resp, NoError)

\* HandleStatus without the rate-limit branch: a 429 is an error status
HandleStatusNoRateLimit(resp, slept, made) ==
    /\ sleeps' = slept
    /\ attempts' = made
    /\ depth' = depth
    /\ IF resp.status < 200 \/ resp.status > 299
       THEN Return(NoResponse, StatusError(resp.status))
       ELSE Return(resp, NoError)

\* HandleStatus taking a Retry-After that does not parse for zero seconds
HandleStatusLenientHeader(resp, slept, made) ==
    IF resp.status = StatusTooManyRequests
    THEN LET seconds == Atoi(resp.retryAfter)
         IN  /\ sleeps' = Log(slept, [seconds |-> SleepFor(seconds.n), invocation |-> depth])
             /\ attempts' = 0
             /\ depth' = IF Recording THEN depth + 1 ELSE depth
             /\ pc' = "do1"
             /\ UNCHANGED <<result, target>>
    ELSE /\ sleeps' = slept
         /\ attempts' = made
         /\ depth' = depth
         /\ IF resp.status < 200 \/ resp.status > 299
            THEN Return(NoResponse, StatusError(resp.status))
            ELSE Return(resp, NoError)

\* doRequest from the rate-limit test on, for the response in hand; slept is
\* the sleep log so far and made the transport calls of this invocation
HandleStatus(resp, slept, made) ==
    IF resp.status = StatusTooManyRequests
    THEN LET seconds == Atoi(resp.retryAfter)
         IN  IF ~seconds.ok
             THEN /\ sleeps' = slept
                  /\ attempts' = made
                  /\ depth' = depth
                  /\ Return(NoResponse, AtoiError)
             ELSE /\ sleeps' = Log(slept, [seconds |-> SleepFor(seconds.n), invocation |-> depth])
                  /\ attempts' = 0
                  /\ depth' = IF Recording THEN depth + 1 ELSE depth
                  /\ pc' = "do1"
                  /\ UNCHANGED <<result, target>>
    ELSE /\ sleeps' = slept
         /\ attempts' = made
         /\ depth' = depth
         /\ IF resp.status < 200 \/ resp.status > 299
            THEN Return(NoResponse, StatusError(resp.status))
            ELSE Return(resp, NoError)

\* c.client.Do(request): the call is logged; a transport that reads the body
\* leaves the reader drained
Do(o, read) ==
    /\ trace' = Log(trace, [request |-> newRequest(call.method, call.endpoint, body),
                            resp |-> o.resp, err |-> o.err, invocation |-> depth])
    /\ body' = IF read /\ body.present THEN [present |-> TRUE, data |-> <<>>] ELSE body

\* getInto / postInto / put up to the call of doRequest
Start(op, endpoint, v) ==
    /\ pc = "idle"
    /\ call' = [op |-> op, method |-> MethodOf(op), endpoint |-> endpoint]
    /\ IF op = "getInto"
       THEN /\ body' = NoBody
            /\ pc' = "do1"
            /\ UNCHANGED <<result, target>>
       ELSE LET buf == JSONEncode(v)
            IN  IF buf.ok
                THEN /\ body' = [present |-> TRUE, data |-> buf.text]
                     /\ pc' = "do1"
                     /\ UNCHANGED <<result, target>>
                ELSE /\ body' = NoBody
                     /\ pc' = "done"
                     /\ target' = [value |-> "zero", err |-> EncodeError]
                     /\ UNCHANGED result
    /\ UNCHANGED <<Region, apiKey, attempts, depth, trace, sleeps>>
    /\ UNCHANGED streamVars

\* FirstAttempt retrying after a 503 without the sleep
FirstAttemptNoSleep(o, read) ==
    /\ pc = "do1"
    /\ Do(o, read)
    /\ IF o.err # NoError
       THEN /\ attempts' = 1
            /\ Return(NoResponse, o.err)
            /\ UNCHANGED <<sleeps, depth>>
       ELSE IF o.resp.status = StatusServiceUnavailable
       THEN /\ attempts' = 1
            /\ pc' = "do2"
            /\ UNCHANGED <<sleeps, depth, result, target>>
       ELSE HandleStatus(o.resp, sleeps, 1)
    /\ UNCHANGED <<Region, apiKey, call>>
    /\ UNCHANGED streamVars

\* FirstAttempt sending the request once more after a transport failure
FirstAttemptRetriesFailure(o, read) ==
    /\ pc = "do1"
    /\ Do(o, read)
    /\ IF o.err # NoError
       THEN /\ attempts' = 1
            /\ pc' = "do2"
            /\ UNCHANGED <<sleeps, depth, result, target>>
       ELSE IF o.resp.status = StatusServiceUnavailable
       THEN /\ attempts' = 1
            /\ sleeps' = Log(sleeps, [seconds |-> SleepFor(1), invocation |-> depth])
            /\ pc' = "do2"
            /\ UNCHANGED <<depth, result, target>>
       ELSE HandleStatus(o.resp, sleeps, 1)
    /\ UNCHANGED <<Region, apiKey, call>>
    /\ UNCHANGED streamVars

\* doRequest from its entry to the end of its first transport call, the
\* one-second sleep after a 503 included
FirstAttempt(o, read) ==
    /\ pc = "do1"
    /\ Do(o, read)
    /\ IF o.err # NoError
       THEN /\ attempts' = 1
            /\ Return(NoResponse, o.err)
            /\ UNCHANGED <<sleeps, depth>>
       ELSE IF o.resp.status = StatusServiceUnavailable
       THEN /\ attempts' = 1
            /\ sleeps' = Log(sleeps, [seconds |-> SleepFor(1), invocation |-> depth])
            /\ pc' = "do2"
            /\ UNCHANGED <<depth, result, target>>
       ELSE HandleStatus(o.resp, sleeps, 1)
    /\ UNCHANGED <<Region, apiKey, call>>
    /\ UNCHANGED streamVars

\* SecondAttempt retrying for as long as the answer is 503
SecondAttemptRetries503(o, read) ==
    /\ pc = "do2"
    /\ Do(o, read)
    /\ IF o.err # NoError
       THEN /\ attempts' = attempts + 1
            /\ Return(NoResponse, o.err)
            /\ UNCHANGED <<sleeps, depth>>
       ELSE IF o.resp.status = StatusServiceUnavailable
       THEN /\ attempts' = attempts + 1
            /\ sleeps' = Log(sleeps, [seconds |-> SleepFor(1), invocation |-> depth])
            /\ pc' = "do2"
            /\ UNCHANGED <<depth, result, target>>
       ELSE HandleStatus(o.resp, sleeps, attempts + 1)
    /\ UNCHANGED <<Region, apiKey, call>>
    /\ UNCHANGED streamVars

\* SecondAttempt sending the request once more after an error status
SecondAttemptRetriesError(o, read) ==
    /\ pc = "do2"
    /\ Do(o, read)
    /\ IF o.err # NoError
       THEN /\ attempts' = attempts + 1
            /\ Return(NoResponse, o.err)
            /\ UNCHANGED <<sleeps, depth>>
       ELSE IF /\ attempts < 2
               /\ o.resp.status # StatusTooManyRequests
               /\ (o.resp.status < 200 \/ o.resp.status > 299)
       THEN /\ attempts' = attempts + 1
            /\ pc' = "do2"
            /\ UNCHANGED <<sleeps, depth, result, target>>
       ELSE HandleStatus(o.resp, sleeps, attempts + 1)
    /\ UNCHANGED <<Region, apiKey, call>>
    /\ UNCHANGED streamVars

\* doRequest from its second transport call on
SecondAttempt(o, read) ==
    /\ pc = "do2"
    /\ Do(o, read)
    /\ IF o.err # NoError
       THEN /\ attempts' = 2
            /\ Return(NoResponse, o.err)
            /\ UNCHANGED <<sleeps, depth>>
       ELSE HandleStatus(o.resp, sleeps, 2)
    /\ UNCHANGED <<Region, apiKey, call>>
    /\ UNCHANGED streamVars

EngineInit ==
    /\ Region \in Regions
    /\ apiKey = "API_KEY"
    /\ pc = "idle"
    /\ call = [op |-> "none", method |-> "", endpoint |-> ""]
    /\ body = NoBody
    /\ attempts = 0
    /\ depth = 0
    /\ trace = <<>>
    /\ sleeps = <<>>
    /\ result = [resp |-> NoResponse, err |-> NoError]
    /\ target = [value |-> "zero", err |-> NoError]

\* the streams a client may have running
Streams == {"s1", "s2"}

\* no stream has been started
StreamsIdle ==
    /\ spc = [s \in Streams |-> "idle"]
    /\ filter = [s \in Streams |-> [BeginIndex |-> <<>>, EndIndex |-> <<>>, Queue |-> <<>>]]
    /\ start = [s \in Streams |-> 0]
    /\ end = [s \in Streams |-> 0]
    /\ page = [s \in Streams |-> <<>>]
    /\ idx = [s \in Streams |-> 0]
    /\ ferr = [s \in Streams |-> NoError]
    /\ cMatches = [s \in Streams |-> <<>>]
    /\ closed = [s \in Streams |-> FALSE]
    /\ received = [s \in Streams |-> <<>>]
    /\ reading = [s \in Streams |-> TRUE]
    /\ fetchLog = [s \in Streams |-> <<>>]

Init ==
    /\ EngineInit
    /\ StreamsIdle
    /\ total = 0

Next ==
    \/ \E op \in Ops, e \in Endpoints, v \in Payloads : Start(op, e, v)
    \/ \E o \in TransportOutcomes, read \in BOOLEAN :
          Len(trace) < MaxCalls /\ FirstAttempt(o, read)
    \/ \E o \in TransportOutcomes, read \in BOOLEAN :
          Len(trace) < MaxCalls /\ SecondAttempt(o, read)

Spec == Init /\ [][Next]_vars

\* the pipeline with no bound on its transport calls: the logs stop growing
\* at MaxCalls entries. A running call always takes its next step; what the
\* transport answers is not constrained.
LiveNext ==
    \/ \E op \in Ops, e \in Endpoints, v \in Payloads : Start(op, e, v)
    \/ \E o \in TransportOutcomes, read \in BOOLEAN : FirstAttempt(o, read)
    \/ \E o \in TransportOutcomes, read \in BOOLEAN : SecondAttempt(o, read)

LiveSpec == Init /\ [][LiveNext]_vars /\ WF_vars(LiveNext)

(***************************************************************************)
(* The match stream: matchClient.ListStream.                               *)
(* Client.GetMatchesByAccountStream is the same goroutine, with the window *)
(* passed to GetMatchesByAccount as start and start+100 and no filter.     *)
(***************************************************************************)
\* io.EOF
EOF == [kind |-> "io", message |-> "EOF", code |-> 0]

\* the errors a page fetch (List) may return
FetchErrors == {ErrNotFound, TransportError}

\* the filters a caller may pass; <<>> is a nil pointer, <<v>> points to v
NoFilter == [BeginIndex |-> <<>>, EndIndex |-> <<>>, Queue |-> <<>>]

Filters == {NoFilter, [BeginIndex |-> <<150>>, EndIndex |-> <<160>>, Queue |-> <<420>>]}

\* MatchStreamValue{MatchReference: m} and MatchStreamValue{Error: e}
ItemValue(m) == [MatchReference |-> <<m>>, Error |-> NoError]
ErrorValue(e) == [MatchReference |-> <<>>, Error |-> e]
\* the zero MatchStreamValue, which a receive from a closed channel yields
ZeroValue == [MatchReference |-> <<>>, Error |-> NoError]

\* the matches the server returns for the window [begin, end): the account's
\* matches are numbered 0 .. total-1
ServerPage(begin, endIndex) ==
    LET last == IF endIndex < total THEN endIndex ELSE total
    IN  IF begin >= last THEN <<>> ELSE [i \in 1..(last - begin) |-> begin + i - 1]

\* Window leaving the caller's BeginIndex and EndIndex in place when set
WindowKeepsCaller(s) ==
    [filter[s] EXCEPT
        !.BeginIndex = IF filter[s].BeginIndex = <<>> THEN <<start[s]>> ELSE @,
        !.EndIndex = IF filter[s].EndIndex = <<>> THEN <<end[s]>> ELSE @]

\* the filter List receives: BeginIndex and EndIndex point to start and end
Window(s) == [filter[s] EXCEPT !.BeginIndex = <<start[s]>>, !.EndIndex = <<end[s]>>]

\* CanSend letting one value more into the buffer
CanSendOffByOne(s) == Len(cMatches[s]) <= ChanCap

\* a channel send proceeds only while the buffer has room
CanSend(s) == Len(cMatches[s]) < ChanCap

\* AfterRange fetching again without moving the window
AfterRangeNoAdvance(s, n) ==
    IF n < PageSize
    THEN /\ spc' = [spc EXCEPT ![s] = "eof"]
         /\ UNCHANGED <<start, end>>
    ELSE /\ spc' = [spc EXCEPT ![s] = "fetch"]
         /\ UNCHANGED <<start, end>>

\* AfterRange taking a full page for the last one
AfterRangeFullIsLast(s, n) ==
    IF n <= PageSize
    THEN /\ spc' = [spc EXCEPT ![s] = "eof"]
         /\ UNCHANGED <<start, end>>
    ELSE /\ spc' = [spc EXCEPT ![s] = "fetch"]
         /\ start' = [start EXCEPT ![s] = @ + PageSize]
         /\ end' = [end EXCEPT ![s] = @ + PageSize]

\* the goroutine after its range loop over a page of n matches
AfterRange(s, n) ==
    IF n < PageSize
    THEN /\ spc' = [spc EXCEPT ![s] = "eof"]
         /\ UNCHANGED <<start, end>>
    ELSE /\ spc' = [spc EXCEPT ![s] = "fetch"]
         /\ start' = [start EXCEPT ![s] = @ + PageSize]
         /\ end' = [end EXCEPT ![s] = @ + PageSize]

\* ListStream with one start and one end for all the goroutines
ListStreamSharedWindow(s, f) ==
    /\ spc[s] = "idle"
    /\ filter' = [filter EXCEPT ![s] = f]
    /\ start' = [t \in Streams |-> 0]
    /\ end' = [t \in Streams |-> PageSize]
    /\ spc' = [spc EXCEPT ![s] = "fetch"]
    /\ UNCHANGED <<total, closed, page, idx, ferr, cMatches, received, reading, fetchLog>>
    /\ UNCHANGED engineVars

\* ListStream: the channel is made and the goroutine started
ListStream(s, f) ==
    /\ spc[s] = "idle"
    /\ filter' = [filter EXCEPT ![s] = f]
    /\ start' = [start EXCEPT ![s] = 0]
    /\ end' = [end EXCEPT ![s] = PageSize]
    /\ spc' = [spc EXCEPT ![s] = "fetch"]
    /\ UNCHANGED <<total, closed, page, idx, ferr, cMatches, received, reading, fetchLog>>
    /\ UNCHANGED engineVars

\* the goroutine's call of List fails
FetchFails(s, e) ==
    /\ spc[s] = "fetch"
    /\ fetchLog' = [fetchLog EXCEPT ![s] = Append(@, [filter |-> Window(s), failed |-> TRUE, n |-> 0])]
    /\ ferr' = [ferr EXCEPT ![s] = e]
    /\ spc' = [spc EXCEPT ![s] = "err"]
    /\ UNCHANGED <<total, closed, filter, start, end, page, idx, cMatches, received, reading>>
    /\ UNCHANGED engineVars

\* the goroutine's call of List returns a page
Fetch(s) ==
    /\ spc[s] = "fetch"
    /\ LET matches == ServerPage(Window(s).BeginIndex[1], Window(s).EndIndex[1])
       IN  /\ fetchLog' = [fetchLog EXCEPT ![s] =
                               Append(@, [filter |-> Window(s), failed |-> FALSE, n |-> Len(matches)])]
           /\ page' = [page EXCEPT ![s] = matches]
           /\ idx' = [idx EXCEPT ![s] = 1]
           /\ IF matches = <<>>
              THEN AfterRange(s, 0)
              ELSE /\ spc' = [spc EXCEPT ![s] = "send"]
                   /\ UNCHANGED <<start, end>>
    /\ UNCHANGED <<total, closed, filter, ferr, cMatches, received, reading>>
    /\ UNCHANGED engineVars

\* one round of the range loop: the next match of the page is sent
SendItem(s) ==
    /\ spc[s] = "send"
    /\ CanSend(s)
    /\ cMatches' = [cMatches EXCEPT ![s] = Append(@, ItemValue(page[s][idx[s]]))]
    /\ IF idx[s] = Len(page[s])
       THEN /\ AfterRange(s, Len(page[s]))
            /\ UNCHANGED idx
       ELSE /\ idx' = [idx EXCEPT ![s] = @ + 1]
            /\ UNCHANGED <<spc, start, end>>
    /\ UNCHANGED <<total, closed, filter, page, ferr, received, reading, fetchLog>>
    /\ UNCHANGED engineVars

\* SendTerminal without the return after the error is sent
SendTerminalNoReturn(s) ==
    /\ spc[s] \in {"eof", "err"}
    /\ CanSend(s)
    /\ cMatches' = [cMatches EXCEPT ![s] =
                       Append(@, ErrorValue(IF spc[s] = "eof" THEN EOF ELSE ferr[s]))]
    /\ spc' = [spc EXCEPT ![s] = IF spc[s] = "eof" THEN "done" ELSE "fetch"]
    /\ UNCHANGED <<total, closed, filter, start, end, page, idx, ferr, received, reading, fetchLog>>
    /\ UNCHANGED engineVars

\* SendTerminal closing the channel after the terminal value
SendTerminalCloses(s) ==
    /\ spc[s] \in {"eof", "err"}
    /\ CanSend(s)
    /\ cMatches' = [cMatches EXCEPT ![s] =
                       Append(@, ErrorValue(IF spc[s] = "eof" THEN EOF ELSE ferr[s]))]
    /\ closed' = [closed EXCEPT ![s] = TRUE]
    /\ spc' = [spc EXCEPT ![s] = "done"]
    /\ UNCHANGED <<total, filter, start, end, page, idx, ferr, received, reading, fetchLog>>
    /\ UNCHANGED engineVars

\* the terminal send: io.EOF after a short page, the error after a failed fetch
SendTerminal(s) ==
    /\ spc[s] \in {"eof", "err"}
    /\ CanSend(s)
    /\ cMatches' = [cMatches EXCEPT ![s] =
                       Append(@, ErrorValue(IF spc[s] = "eof" THEN EOF ELSE ferr[s]))]
    /\ spc' = [spc EXCEPT ![s] = "done"]
    /\ UNCHANGED <<total, closed, filter, start, end, page, idx, ferr, received, reading, fetchLog>>
    /\ UNCHANGED engineVars

\* the consumer receives the oldest value of the channel; it waits while
\* the channel is empty, unless the channel is closed
Receive(s) ==
    /\ spc[s] # "idle"
    /\ reading[s]
    /\ IF cMatches[s] # <<>>
       THEN /\ received' = [received EXCEPT ![s] = Append(@, Head(cMatches[s]))]
            /\ cMatches' = [cMatches EXCEPT ![s] = Tail(@)]
       ELSE /\ closed[s]
            /\ received' = [received EXCEPT ![s] = Append(@, ZeroValue)]
            /\ UNCHANGED cMatches
    /\ UNCHANGED <<total, closed, spc, filter, start, end, page, idx, ferr, reading, fetchLog>>
    /\ UNCHANGED engineVars

\* the consumer stops receiving, for good
StopReading(s) ==
    /\ spc[s] # "idle"
    /\ reading[s]
    /\ reading' = [reading EXCEPT ![s] = FALSE]
    /\ UNCHANGED <<total, closed, spc, filter, start, end, page, idx, ferr, cMatches, received, fetchLog>>
    /\ UNCHANGED engineVars

\* the match counts the server may hold for the account
Totals == {p * PageSize + d : p \in 0..MaxPages, d \in {0, 1}} \cup {PageSize - 1}

StreamInit ==
    /\ EngineInit
    /\ StreamsIdle
    /\ total \in Totals

StreamNext ==
    \/ \E f \in Filters : ListStream("s1", f)
    \/ \E e \in FetchErrors : FetchFails("s1", e)
    \/ Fetch("s1")
    \/ SendItem("s1")
    \/ SendTerminal("s1")
    \/ Receive("s1")
    \/ StopReading("s1")

StreamSpec == StreamInit /\ [][StreamNext]_vars


\* the goroutine's steps
Producer(s) ==
    \/ \E e \in FetchErrors : FetchFails(s, e)
    \/ Fetch(s)
    \/ SendItem(s)
    \/ SendTerminal(s)

\* the stream of a caller that passes no filter
StreamLiveNext ==
    \/ ListStream("s1", NoFilter)
    \/ \E e \in FetchErrors : FetchFails("s1", e)
    \/ Fetch("s1")
    \/ SendItem("s1")
    \/ SendTerminal("s1")
    \/ Receive("s1")
    \/ StopReading("s1")

\* that stream with its scheduling: a goroutine that can take a step takes
\* it, and a consumer that still receives takes the value the channel holds
StreamLiveSpec ==
    StreamInit /\ [][StreamLiveNext]_vars
        /\ WF_vars(Producer("s1")) /\ WF_vars(Receive("s1"))

(***************************************************************************)
(* Two streams of one client, for the same account and the same filter.    *)
(***************************************************************************)
\* the filter both callers pass
SharedFilter == [BeginIndex |-> <<150>>, EndIndex |-> <<160>>, Queue |-> <<420>>]

\* the account's match count: a page that is not full, or exactly one page
TwoStreamTotals == {1, 2, PageSize}

\* a consumer that receives only when the goroutine cannot go on without
\* it, or has finished
ReceiveLate(s) ==
    /\ spc[s] = "done" \/ ~CanSend(s)
    /\ Receive(s)

TwoStreamInit ==
    /\ EngineInit
    /\ StreamsIdle
    /\ total \in TwoStreamTotals

\* both goroutines and both consumers, in any order; the consumers of a
\* short stream receive whenever their channel holds a value, those of a
\* stream of a full page receive late
TwoStreamNext ==
    \/ \E s \in Streams : ListStream(s, SharedFilter)
    \/ \E s \in Streams, e \in FetchErrors : FetchFails(s, e)
    \/ \E s \in Streams : Fetch(s)
    \/ \E s \in Streams : SendItem(s)
    \/ \E s \in Streams : SendTerminal(s)
    \/ \E s \in Streams : total < PageSize /\ Receive(s)
    \/ \E s \in Streams : ReceiveLate(s)

TwoStreamSpec == TwoStreamInit /\ [][TwoStreamNext]_vars

(***************************************************************************)
(* Properties of the request pipeline.                                     *)
(***************************************************************************)
\* the transport calls, and the sleeps, of invocation d of doRequest
InvCalls(d) == SelectSeq(trace, LAMBDA t : t.invocation = d)
InvSleeps(d) == SelectSeq(sleeps, LAMBDA z : z.invocation = d)

Seconds(log) == [i \in 1..Len(log) |-> log[i].seconds]

\* transport call t was answered with a response of that status
Answered(t, status) == t.err = NoError /\ t.resp.status = status
AnsweredOK(t) == t.err = NoError /\ t.resp.status >= 200 /\ t.resp.status <= 299

\* C1: an invocation of doRequest whose first and second transport calls are
\* both answered 503 makes no further call: the call has returned
\* ErrServiceUnavailable and no response, after two transport calls and one
\* sleep, of one second.
C1_UnavailableTwice ==
    \A d \in 0..depth :
        LET c == InvCalls(d)
        IN  (Len(c) >= 2 /\ Answered(c[1], StatusServiceUnavailable)
                         /\ Answered(c[2], StatusServiceUnavailable))
            => /\ Len(c) = 2
               /\ d = depth
               /\ pc = "done"
               /\ result = [resp |-> NoResponse, err |-> ErrServiceUnavailable]
               /\ target.err = ErrServiceUnavailable
               /\ Seconds(InvSleeps(d)) = <<1>>

C1_Witness ==
    /\ pc = "done"
    /\ Len(trace) = 2
    /\ Answered(trace[1], StatusServiceUnavailable)
    /\ Answered(trace[2], StatusServiceUnavailable)
    /\ result.err = ErrServiceUnavailable
    /\ Seconds(sleeps) = <<1>>

\* C2: an invocation of doRequest whose first transport call is answered 503
\* and whose second is answered 2xx returns that second response and no error
\* after two transport calls and one sleep, of one second; getInto and
\* postInto hand the caller the value decoded from the response's JSON body.
C2_UnavailableOnce ==
    \A d \in 0..depth :
        LET c == InvCalls(d)
        IN  (Len(c) >= 2 /\ Answered(c[1], StatusServiceUnavailable) /\ AnsweredOK(c[2]))
            => /\ Len(c) = 2
               /\ d = depth
               /\ pc = "done"
               /\ result = [resp |-> c[2].resp, err |-> NoError]
               /\ Seconds(InvSleeps(d)) = <<1>>
               /\ (call.op # "put" /\ c[2].resp.content = <<"json", "code">>)
                     => target = [value |-> "code", err |-> NoError]

C2_Witness ==
    /\ pc = "done"
    /\ Len(trace) = 2
    /\ Answered(trace[1], StatusServiceUnavailable)
    /\ AnsweredOK(trace[2])
    /\ Seconds(sleeps) = <<1>>
    /\ target = [value |-> "code", err |-> NoError]

\* the call's first transport call was answered 429 with a Retry-After that
\* parses as an integer, and its second transport call was answered 2xx
RateLimitedThenOK ==
    /\ Len(trace) >= 2
    /\ Answered(trace[1], StatusTooManyRequests)
    /\ Atoi(trace[1].resp.retryAfter).ok
    /\ AnsweredOK(trace[2])

Seen429 == \E i \in 1..Len(trace) : Answered(trace[i], StatusTooManyRequests)

\* C4 (as claimed): a call that receives a 429 returns in the end.
C4_RateLimitedReturns == Seen429 ~> (pc = "done")

\* C4 (amended): no call returns an error for status 429. Every 429 a call
\* receives either ends the call with the Retry-After parse error or is
\* followed by a re-invocation of doRequest; a call that has returned holds
\* a response or an error other than a status-429 error.
C4_RateLimitAbsorbed ==
    /\ pc = "done" => ~(result.err.kind = "api" /\ result.err.code = StatusTooManyRequests)
    /\ (pc = "done" /\ trace # <<>> /\ result.err = NoError)
          => (result.resp.status >= 200 /\ result.resp.status <= 299)
    /\ \A i \in 1..Len(trace) :
          Answered(trace[i], StatusTooManyRequests)
          => IF Atoi(trace[i].resp.retryAfter).ok
             THEN depth > trace[i].invocation
             ELSE /\ i = Len(trace)
                  /\ pc = "done"
                  /\ result = [resp |-> NoResponse, err |-> AtoiError]

C4_Witness ==
    /\ pc = "done"
    /\ Seen429
    /\ depth = 2
    /\ result.err = ErrNotFound

\* C5: when the response doRequest ends on has a status outside 200..299
\* other than 429, doRequest returns no response and the error of the status
\* table for that status (ErrNotFound for 404, whatever the method and the
\* endpoint), or, for a status the table lacks, the error "unknown error
\* reason" with that status; the wrapper returns the same error.
C5_StatusErrors ==
    (pc = "done" /\ trace # <<>> /\ trace[Len(trace)].err = NoError)
    => LET status == trace[Len(trace)].resp.status
       IN  (status # StatusTooManyRequests /\ (status < 200 \/ status > 299))
           => /\ result.resp = NoResponse
              /\ target.err = result.err
              /\ status = StatusNotFound => result.err = ErrNotFound
              /\ status \in DOMAIN StatusToError => result.err = StatusToError[status]
              /\ status \notin DOMAIN StatusToError
                   => result.err = [kind |-> "api", message |-> "unknown error reason",
                                    code |-> status]

C5_Witness ==
    /\ pc = "done"
    /\ call.method = "PUT"
    /\ Len(trace) = 3
    /\ Answered(trace[3], 999)
    /\ result = [resp |-> NoResponse,
                 err |-> [kind |-> "api", message |-> "unknown error reason", code |-> 999]]

\* C8: an invocation of doRequest makes at most two transport calls, and a
\* second one only after a 503; when the second call is answered with a
\* status outside 200..299 other than 429 the invocation returns that
\* status's error, and when it is answered 429 the invocation has made its
\* last transport call.
C8_OneExtraAttempt ==
    /\ attempts <= 2
    /\ \A d \in 0..depth :
          LET c == InvCalls(d)
          IN  /\ Len(c) <= 2
              /\ Len(c) = 2 =>
                    /\ Answered(c[1], StatusServiceUnavailable)
                    /\ (c[2].err = NoError /\ ~AnsweredOK(c[2])
                            /\ c[2].resp.status # StatusTooManyRequests)
                         => /\ d = depth
                            /\ pc = "done"
                            /\ result = [resp |-> NoResponse,
                                         err |-> StatusError(c[2].resp.status)]

C8_Witness ==
    /\ pc = "done"
    /\ attempts = 2
    /\ Len(trace) = 2
    /\ Answered(trace[1], StatusServiceUnavailable)
    /\ Answered(trace[2], StatusNotFound)
    /\ result.err = ErrNotFound

(***************************************************************************)
(* Properties of the match stream.                                         *)
(***************************************************************************)
\* every value put on the stream's channel so far, oldest first
Delivered(s) == received[s] \o cMatches[s]

Fetches(s) == Len(fetchLog[s])

NoFetchError(s) == \A i \in 1..Len(fetchLog[s]) : ~fetchLog[s][i].failed

\* the matches 0 .. n-1 in order, then one value carrying e
ItemsThen(n, e) == [i \in 1..(n + 1) |-> IF i <= n THEN ItemValue(i - 1) ELSE ErrorValue(e)]

Items(n) == [i \in 1..n |-> ItemValue(i - 1)]

IsPrefix(a, b) == Len(a) <= Len(b) /\ a = SubSeq(b, 1, Len(a))

CeilPages(n) == (n + PageSize - 1) \div PageSize

\* the safety half of C6: what has been fetched and sent so far
C6_Safe ==
    (spc["s1"] # "idle" /\ total % PageSize # 0 /\ NoFetchError("s1"))
    => /\ Fetches("s1") <= CeilPages(total)
       /\ IsPrefix(Delivered("s1"), ItemsThen(total, EOF))
       /\ spc["s1"] = "done"
            => /\ Fetches("s1") = CeilPages(total)
               /\ Delivered("s1") = ItemsThen(total, EOF)

\* C6: for a match count that is no multiple of 100 and with no failed
\* fetch, the values put on the channel are always a prefix of the matches
\* in order followed by one io.EOF value, a finished goroutine has made
\* exactly ceil(count/100) fetches and sent all of them, and a consumer that
\* keeps receiving gets all of them: the goroutine finishes.
C6_NonMultipleStream ==
    /\ []C6_Safe
    /\ (spc["s1"] # "idle" /\ total % PageSize # 0)
          ~> \/ ~reading["s1"]
             \/ ~NoFetchError("s1")
             \/ (spc["s1"] = "done" /\ received["s1"] = ItemsThen(total, EOF))

C6_Witness ==
    /\ total = PageSize + 1
    /\ spc["s1"] = "done"
    /\ reading["s1"]
    /\ Fetches("s1") = 2
    /\ received["s1"] = ItemsThen(total, EOF)

\* C7: once the k-th fetch has failed, it stays the last fetch, the values
\* put on the channel are the matches of the k-1 full pages before it in
\* order and, once the goroutine has finished, one value carrying that
\* fetch's error after them; no io.EOF value is sent.
C7_FetchError ==
    \A k \in 1..Fetches("s1") :
        fetchLog["s1"][k].failed
        => /\ k = Fetches("s1")
           /\ \A j \in 1..(k - 1) : fetchLog["s1"][j].n = PageSize
           /\ spc["s1"] \in {"err", "done"}
           /\ ferr["s1"] \in FetchErrors
           /\ Delivered("s1") = IF spc["s1"] = "done"
                                THEN ItemsThen(PageSize * (k - 1), ferr["s1"])
                                ELSE Items(PageSize * (k - 1))

C7_Witness ==
    /\ spc["s1"] = "done"
    /\ Fetches("s1") = 2
    /\ fetchLog["s1"][2].failed
    /\ received["s1"] = ItemsThen(PageSize, TransportError)

\* the goroutine waits at a send on a full channel nobody receives from
Blocked(s) ==
    /\ ~reading[s]
    /\ spc[s] \in {"send", "eof", "err"}
    /\ Len(cMatches[s]) = ChanCap

\* the consumer has stopped with more values to come than the buffer holds
StoppedEarly(s) ==
    /\ spc[s] # "idle"
    /\ ~reading[s]
    /\ total + 1 - Len(received[s]) > ChanCap

\* C9: the channel never holds more than 100 values; a goroutine whose
\* consumer stopped with more than 100 values to come never finishes; it
\* comes to wait at a send on the full channel (unless a fetch fails), and
\* once it waits there it waits there for ever.
C9_LeakedProducer ==
    /\ [](Len(cMatches["s1"]) <= ChanCap)
    /\ []((StoppedEarly("s1") /\ NoFetchError("s1")) => spc["s1"] # "done")
    /\ (StoppedEarly("s1") ~> (Blocked("s1") \/ ~NoFetchError("s1")))
    /\ [][Blocked("s1") => Blocked("s1")']_vars

C9_Witness ==
    /\ Blocked("s1")
    /\ StoppedEarly("s1")
    /\ spc["s1"] = "eof"
    /\ received["s1"] = <<>>

\* C10: for a match count that is a multiple of 100 (0 included) and with
\* no failed fetch, every fetch but the last returns a full page, the
\* io.EOF value is sent only after fetch count/100 + 1 has returned an
\* empty page, and the values put on the channel are a prefix of the
\* matches in order followed by that one io.EOF value: all of them once
\* the goroutine has finished.
C10_ExactMultipleStream ==
    (spc["s1"] # "idle" /\ total % PageSize = 0 /\ NoFetchError("s1"))
    => LET last == total \div PageSize + 1
       IN  /\ Fetches("s1") <= last
           /\ \A k \in 1..Fetches("s1") :
                 fetchLog["s1"][k].n = IF k = last THEN 0 ELSE PageSize
           /\ IsPrefix(Delivered("s1"), ItemsThen(total, EOF))
           /\ spc["s1"] \in {"eof", "done"} => Fetches("s1") = last
           /\ Len(Delivered("s1")) = total + 1 => Fetches("s1") = last
           /\ spc["s1"] = "done" => Delivered("s1") = ItemsThen(total, EOF)

C10_Witness ==
    /\ total = PageSize
    /\ spc["s1"] = "done"
    /\ Fetches("s1") = 2
    /\ fetchLog["s1"][2].n = 0
    /\ received["s1"] = ItemsThen(PageSize, EOF)

\* C11: the k-th fetch of the goroutine asks for the window begin =
\* 100*(k-1), end = 100*k, whatever BeginIndex and EndIndex the caller's
\* filter carried, with the filter's other fields as the caller passed
\* them; a further fetch is made only after a full page, and the
\* goroutine's start and end stand 100 apart, at the window of its next
\* fetch.
C11_SlidingWindow ==
    /\ \A k \in 1..Fetches("s1") :
          /\ fetchLog["s1"][k].filter =
                [filter["s1"] EXCEPT !.BeginIndex = <<PageSize * (k - 1)>>,
                                     !.EndIndex = <<PageSize * k>>]
          /\ k < Fetches("s1")
                => (~fetchLog["s1"][k].failed /\ fetchLog["s1"][k].n = PageSize)
    /\ spc["s1"] # "idle" => end["s1"] = start["s1"] + PageSize
    /\ spc["s1"] = "fetch" => start["s1"] = PageSize * Fetches("s1")

C11_Witness ==
    /\ Fetches("s1") = 2
    /\ filter["s1"].BeginIndex = <<150>>
    /\ filter["s1"].Queue = <<420>>
    /\ fetchLog["s1"][1].filter.BeginIndex = <<0>>
    /\ fetchLog["s1"][2].filter =
          [BeginIndex |-> <<PageSize>>, EndIndex |-> <<2 * PageSize>>, Queue |-> <<420>>]


(***************************************************************************)
(* Further properties of the request pipeline.                             *)
(***************************************************************************)
\* transport call i was answered 429 with a Retry-After, present or not,
\* that strconv.Atoi rejects
Unparsable429(i) ==
    /\ Answered(trace[i], StatusTooManyRequests)
    /\ ~Atoi(trace[i].resp.retryAfter).ok

\* C12: a transport call answered 429 with a Retry-After that does not parse
\* as an integer (a missing header included) is the call's last transport
\* call: doRequest has returned no response and the parse error, and so has
\* the wrapper, with no re-invocation of doRequest and no sleep after that
\* answer (every sleep of the call lies between two of its transport calls).
C12_UnparsableRetryAfter ==
    \A i \in 1..Len(trace) :
        Unparsable429(i)
        => /\ i = Len(trace)
           /\ pc = "done"
           /\ result = [resp |-> NoResponse, err |-> AtoiError]
           /\ target = [value |-> "zero", err |-> AtoiError]
           /\ depth = trace[i].invocation
           /\ Len(sleeps) = i - 1

C12_Witness ==
    /\ pc = "done"
    /\ Len(trace) = 2
    /\ Answered(trace[1], StatusServiceUnavailable)
    /\ Unparsable429(2)
    /\ trace[2].resp.retryAfter = <<>>
    /\ result.err = AtoiError
    /\ Seconds(sleeps) = <<1>>
    /\ depth = 0


\* C13: a transport call that fails is the call's last transport call:
\* doRequest has returned no response and the transport's error as it came,
\* and so has the wrapper. The failing call is the first of its invocation
\* of doRequest, which then has not slept, or the second, made after a 503
\* and the one-second sleep; no sleep follows the failure.
C13_TransportFailure ==
    \A i \in 1..Len(trace) :
        trace[i].err # NoError
        => LET d == trace[i].invocation
               c == InvCalls(d)
           IN  /\ i = Len(trace)
               /\ pc = "done"
               /\ d = depth
               /\ result = [resp |-> NoResponse, err |-> trace[i].err]
               /\ target = [value |-> "zero", err |-> trace[i].err]
               /\ attempts = Len(c)
               /\ Len(c) \in {1, 2}
               /\ Len(c) = 1 => InvSleeps(d) = <<>>
               /\ Len(c) = 2 => /\ Answered(c[1], StatusServiceUnavailable)
                                /\ Seconds(InvSleeps(d)) = <<1>>
               /\ Len(sleeps) = i - 1

C13_Witness ==
    /\ pc = "done"
    /\ Len(trace) = 2
    /\ Answered(trace[1], StatusServiceUnavailable)
    /\ trace[2].err = TransportError
    /\ result = [resp |-> NoResponse, err |-> TransportError]
    /\ attempts = 2
    /\ Seconds(sleeps) = <<1>>


\* C14 (as claimed): every transport call of a call after its first (the
\* second attempt after a 503, and the attempts of each re-invocation after
\* a 429) is handed the request the first one was handed: the same method,
\* URL, token and Accept headers, and the same body payload.
C14_SameRequestRetried ==
    \A i \in 1..Len(trace) : trace[i].request = trace[1].request

\* C14 (what the code keeps): the method, the URL and the two headers are
\* the same on every transport call, and a request without a body is the
\* same altogether; the payload of a later transport call is the first
\* one's, or empty.
C14_SameRequestLine ==
    \A i \in 1..Len(trace) :
        /\ trace[i].request.method = trace[1].request.method
        /\ trace[i].request.url = trace[1].request.url
        /\ trace[i].request.token = trace[1].request.token
        /\ trace[i].request.accept = trace[1].request.accept
        /\ trace[i].request.payload \in {trace[1].request.payload, <<>>}
        /\ call.method = "GET" => trace[i].request = trace[1].request

\* a POST whose body the transport read in full is sent again after a 503
\* with nothing left to read from its body
C14_Witness ==
    /\ pc = "done"
    /\ call.method = "POST"
    /\ Len(trace) = 2
    /\ Answered(trace[1], StatusServiceUnavailable)
    /\ AnsweredOK(trace[2])
    /\ trace[1].request.payload = JSONEncode("body").text
    /\ trace[2].request.payload = <<>>


(***************************************************************************)
(* Further properties of the match stream.                                 *)
(***************************************************************************)
\* all there is to stream s: its goroutine, its channel and its consumer
StreamState(s) ==
    <<spc[s], filter[s], start[s], end[s], page[s], idx[s], ferr[s],
      cMatches[s], closed[s], received[s], reading[s], fetchLog[s]>>

\* the values stream s puts on its channel when it runs alone against the
\* answers its own fetches got: the matches in order and io.EOF or, when
\* its k-th fetch failed, the matches of the k-1 pages before and the error
AloneValues(s) ==
    IF NoFetchError(s)
    THEN ItemsThen(total, EOF)
    ELSE ItemsThen(PageSize * (Fetches(s) - 1), ferr[s])

\* stream s is where it would be had it run alone
RunsAsAlone(s) ==
    /\ \A k \in 1..Fetches(s) :
          /\ fetchLog[s][k].filter =
                [filter[s] EXCEPT !.BeginIndex = <<PageSize * (k - 1)>>,
                                  !.EndIndex = <<PageSize * k>>]
          /\ fetchLog[s][k].failed => k = Fetches(s)
    /\ IsPrefix(received[s], Delivered(s))
    /\ IsPrefix(Delivered(s), AloneValues(s))
    /\ Len(cMatches[s]) <= ChanCap
    /\ spc[s] = "done" => Delivered(s) = AloneValues(s)

\* C15: with two streams of one client running for the same account and
\* the same filter, under every interleaving of the steps of the two
\* goroutines and the two consumers, each stream asks for its own windows
\* 0, 100, ... and puts on its own channel, and hands its consumer, the
\* values it would alone; and no step of one stream changes anything of the
\* other stream.
C15_IndependentStreams ==
    /\ [](\A s \in Streams : RunsAsAlone(s))
    /\ [][\E s \in Streams : StreamState(s)' = StreamState(s)]_vars

C15_Witness ==
    /\ total = PageSize
    /\ spc["s1"] = "done"
    /\ spc["s2"] = "done"
    /\ filter["s1"] = filter["s2"]
    /\ received["s1"] = ItemsThen(PageSize, EOF)
    /\ received["s2"] = ItemsThen(PageSize, ErrNotFound)


\* a value that ends a stream: it carries io.EOF or a fetch's error
Terminal(v) == v.Error # NoError

\* the places of the terminal values among the values put on the channel
TerminalsSent(s) == {i \in 1..Len(Delivered(s)) : Terminal(Delivered(s)[i])}

\* the consumer has received a terminal value
TerminalReceived(s) == \E i \in 1..Len(received[s]) : Terminal(received[s][i])

\* C16: of the values put on a stream's channel at most one is terminal
\* (io.EOF or an error) and it is the last one; it has been sent exactly
\* when the goroutine has finished, and nothing is put on the channel after
\* it. The channel is never closed: once the consumer has received the
\* terminal value the channel is empty and open, a further receive cannot
\* proceed, and the consumer never receives another value.
C16_TerminalIsLast ==
    /\ [](/\ Cardinality(TerminalsSent("s1")) <= 1
          /\ \A i \in TerminalsSent("s1") : i = Len(Delivered("s1"))
          /\ (TerminalsSent("s1") # {}) <=> (spc["s1"] = "done")
          /\ ~closed["s1"]
          /\ TerminalReceived("s1")
                => (cMatches["s1"] = <<>> /\ ~ENABLED Receive("s1")))
    /\ [][(TerminalsSent("s1") # {})
             => (Delivered("s1")' = Delivered("s1") /\ closed' = closed)]_vars
    /\ [][TerminalReceived("s1") => received' = received]_vars

C16_Witness ==
    /\ total = PageSize + 1
    /\ spc["s1"] = "done"
    /\ reading["s1"]
    /\ cMatches["s1"] = <<>>
    /\ ~closed["s1"]
    /\ received["s1"] = ItemsThen(total, EOF)
    /\ TerminalReceived("s1")

=============================================================================
